---- MODULE Spec2Model ----
(***************************************************************************)
(* Progress tracking utilities of the autonomous coding agent              *)
(* (reference-files/autonomous-coding/progress.py).                        *)
(*                                                                         *)
(* The module reads two files it does not own, summary.txt (the regression *)
(* runner's report) and feature_list.json (the agent's feature list), and  *)
(* prints to stdout.  The files are state variables changed by an external *)
(* writer; a call of the module is a sequence of steps, one per file       *)
(* system access, so that the writer can act between the existence check   *)
(* and the read of one call.                                               *)
(*                                                                         *)
(* Text is a sequence of one-character strings, so that Python's `in` and  *)
(* str.lower() are computed on characters.  The emoji that starts each     *)
(* status string of the source is left out of the status values.           *)
(***************************************************************************)
EXTENDS Integers, Sequences, FiniteSets, TLC

VARIABLES
    summary,            \* state of <parent>/tests/regression/results/summary.txt
    features,           \* state of <project_dir>/feature_list.json
    op,                 \* the operation the driver is running, "none" between calls
    pc,                 \* the position inside the running function
    counts,             \* print_progress_summary's local (passing, total)
    regression_status,  \* print_progress_summary's local regression_status
    stdout,             \* the lines printed by the running or latest call
    pathlib_raises,     \* the interpreter's Path.exists() re-raises a PermissionError
    disturbed,          \* history: an external writer acted during the running call
    last                \* history: the latest completed call and what it observed

vars == <<summary, features, op, pc, counts, regression_status, stdout, pathlib_raises,
          disturbed, last>>

---------------------------------------------------------------------------
(* Bounds of the model.                                                    *)

\* summary.txt holds at most MaxChunks text fragments in the status-only model
MaxChunks == 2
\* feature_list.json holds at most MaxEntries array entries in the count-only model
MaxEntries == 2
\* the same two bounds in the model of the whole module, where both files vary
MaxChunksAll == 1
MaxEntriesAll == 1
\* the same two bounds in the model of print_progress_summary
MaxChunksSummary == 1
MaxEntriesSummary == 3
\* session numbers passed to print_session_header
MaxSession == 2

\* width of the banner rule: "=" * 70
RuleWidth == 70

---------------------------------------------------------------------------
(* Text.                                                                   *)

SuccessPhrase == <<"A", "l", "l", " ", "t", "e", "s", "t", "s", " ", "c", "o", "m", "p", "l", "e", "t", "e", "d", " ", "s", "u", "c", "c", "e", "s", "s", "f", "u", "l", "l", "y">>
FailedWord == <<"f", "a", "i", "l", "e", "d">>

UpperLetters == <<"A", "B", "C", "D", "E", "F", "G", "H", "I", "J", "K", "L", "M", "N", "O", "P", "Q", "R", "S", "T", "U", "V", "W", "X", "Y", "Z">>
LowerLetters == <<"a", "b", "c", "d", "e", "f", "g", "h", "i", "j", "k", "l", "m", "n", "o", "p", "q", "r", "s", "t", "u", "v", "w", "x", "y", "z">>

\* str.lower() on one character of the model's alphabet (ASCII)
LowerChar(c) ==
    IF \E i \in 1..Len(UpperLetters) : UpperLetters[i] = c
    THEN LowerLetters[CHOOSE i \in 1..Len(UpperLetters) : UpperLetters[i] = c]
    ELSE c

\* content.lower()
Lower(s) == [i \in 1..Len(s) |-> LowerChar(s[i])]

\* needle in hay (Python's substring test)
Contains(needle, hay) ==
    \E i \in 0..(Len(hay) - Len(needle)) :
        SubSeq(hay, i + 1, i + Len(needle)) = needle

\* the fragments an external writer puts into summary.txt
LowerPhrase == <<"a", "l", "l", " ", "t", "e", "s", "t", "s", " ", "c", "o", "m", "p", "l", "e", "t", "e", "d", " ", "s", "u", "c", "c", "e", "s", "s", "f", "u", "l", "l", "y">>
UpperFailed == <<"F", "A", "I", "L", "E", "D">>
Fail == <<"F", "a", "i", "l">>
Ed == <<"e", "d">>
Passed == <<" ", "4", "2", " ", "p", "a", "s", "s", "e", "d", ".">>

Fragments == {SuccessPhrase, LowerPhrase, FailedWord, UpperFailed, Fail, Ed, Passed}
FragmentsAll == {SuccessPhrase, FailedWord, Passed}
FragmentsSummary == {SuccessPhrase}

RECURSIVE Flatten(_)
\* the text of a file written as a sequence of fragments
Flatten(chunks) ==
    IF chunks = <<>> THEN <<>> ELSE Head(chunks) \o Flatten(Tail(chunks))

---------------------------------------------------------------------------
(* The two files.  A file is absent, in a directory the process may not    *)
(* search ("inaccessible": stat and open fail with EACCES), present but    *)
(* failing every read with an OSError ("unreadable": no read permission, a *)
(* directory), present with bytes that do not decode in the locale's       *)
(* encoding ("undecodable": UnicodeDecodeError, a ValueError), or present  *)
(* with text.  The text of summary.txt is the fragments written to it so   *)
(* far; the text of feature_list.json is given by what json.load makes of  *)
(* it.                                                                     *)

NoDoc == [t |-> "none", items |-> <<>>]

Absent == [kind |-> "absent", chunks |-> <<>>, doc |-> NoDoc]
Inaccessible == [kind |-> "inaccessible", chunks |-> <<>>, doc |-> NoDoc]
Unreadable == [kind |-> "unreadable", chunks |-> <<>>, doc |-> NoDoc]
Undecodable == [kind |-> "undecodable", chunks |-> <<>>, doc |-> NoDoc]

TextFile(chunks) == [kind |-> "text", chunks |-> chunks, doc |-> NoDoc]
JsonFile(d) == [kind |-> "text", chunks |-> <<>>, doc |-> d]

\* Path.read_text() of a file that holds text
ReadText(f) == Flatten(f.chunks)

\* What json.load gives for the text of feature_list.json.  t is the JSON
\* type of the top-level value ("invalid": the text is not JSON); items is what
\* iterating the Python value yields: the entries of an array, the keys of
\* an object, the characters of a string.  An entry is a mapping
\* (t = "object") with the JSON token of its "passes" value ("absent" when
\* the key is missing), or a value of another type.
PassesTokens == {"absent", "true", "false", "null", "0", "1"}
Mapping(p) == [t |-> "object", passes |-> p]
NonMapping(t) == [t |-> t, passes |-> "absent"]

Entries == {Mapping(p) : p \in PassesTokens} \cup {NonMapping("number")}
EntriesAll == {Mapping("true"), Mapping("false"), Mapping("absent"), NonMapping("number")}
EntriesSummary == {Mapping("true"), Mapping("false"), Mapping("absent")}

Doc(t, items) == [t |-> t, items |-> items]

NonArrayDocs ==
    { Doc("invalid", <<>>), Doc("number", <<>>), Doc("null", <<>>), Doc("bool", <<>>),
      Doc("object", <<>>), Doc("object", <<NonMapping("string")>>),
      Doc("string", <<>>), Doc("string", <<NonMapping("string")>>) }

---------------------------------------------------------------------------
(* How a call ends: it returns a status string or a (passing, total) pair, *)
(* or it raises an exception of class exc.                                 *)

ReturnedStatus(status) == [kind |-> "return", status |-> status, pair |-> <<0, 0>>, exc |-> "none"]
Returned(pair) == [kind |-> "return", status |-> "", pair |-> pair, exc |-> "none"]
Raised(exc) == [kind |-> "raise", status |-> "", pair |-> <<0, 0>>, exc |-> exc]

\* what open() or read() raises on file f, "none" when the text is read
ReadFailure(f) ==
    IF f.kind = "absent" THEN "FileNotFoundError"
    ELSE IF f.kind \in {"inaccessible", "unreadable"} THEN "PermissionError"
    ELSE IF f.kind = "undecodable" THEN "UnicodeDecodeError"
    ELSE "none"

---------------------------------------------------------------------------
(* get_regression_status.                                                  *)

Passing == "Regression tests passing"
Failed == "Regression tests failed"
CompletedWithIssues == "Regression tests completed with issues"
ReadError == "Could not read regression results"
NotYetRun == "No regression tests run yet"

\* Path.exists() is stat() with the errors ENOENT, ENOTDIR, EBADF and ELOOP
\* turned into False.  Up to Python 3.13 any other OSError is re-raised, so
\* the EACCES of an inaccessible path leaves exists() as a PermissionError;
\* a Path.exists() that answers False for every OSError returns False there.
ExistsRaises(f) == f.kind = "inaccessible" /\ pathlib_raises
Exists(f) == f.kind \notin {"absent", "inaccessible"}

\* Classify with the two tests in the other order
ClassifyFailedFirst(content) ==
    IF Contains(FailedWord, Lower(content)) THEN Failed
    ELSE IF Contains(SuccessPhrase, content) THEN Passing
    ELSE CompletedWithIssues

\* Classify without the call of lower()
ClassifyCaseSensitive(content) ==
    IF Contains(SuccessPhrase, content) THEN Passing
    ELSE IF Contains(FailedWord, content) THEN Failed
    ELSE CompletedWithIssues

\* the if/elif/else over the content that read_text returned
Classify(content) ==
    IF Contains(SuccessPhrase, content) THEN Passing
    ELSE IF Contains(FailedWord, Lower(content)) THEN Failed
    ELSE CompletedWithIssues

\* the body of the try statement: read_text, then the classification
StatusBody(f) ==
    IF ReadFailure(f) # "none" THEN Raised(ReadFailure(f))
    ELSE ReturnedStatus(Classify(ReadText(f)))

\* StatusAfterTry reporting a file that is gone as not yet run
StatusAfterTryMissingAsNotRun(f) ==
    LET b == StatusBody(f)
    IN  IF b.kind = "raise"
        THEN ReturnedStatus(IF b.exc = "FileNotFoundError" THEN NotYetRun ELSE ReadError)
        ELSE b

\* the try statement with its bare except, which catches every exception
StatusAfterTry(f) ==
    LET b == StatusBody(f)
    IN  IF b.kind = "raise" THEN ReturnedStatus(ReadError) ELSE b

---------------------------------------------------------------------------
(* count_passing_tests.                                                    *)

\* the truth value Python gives the value of a JSON token
Truthy(token) == token \notin {"absent", "false", "null", "0", "\"\""}

\* the types whose Python values have a len() and can be iterated
Sized == {"array", "object", "string"}

\* test.get("passes", False); only a dict has .get
HasGet(entry) == entry.t = "object"
\* GetPasses with the default True
GetPassesDefaultTrue(entry) == IF entry.passes = "absent" THEN "true" ELSE entry.passes
GetPasses(entry) == IF entry.passes = "absent" THEN "false" ELSE entry.passes

\* the body of the try statement: open, json.load, len, sum
CountBody(f) ==
    IF ReadFailure(f) # "none" THEN Raised(ReadFailure(f))
    ELSE IF f.doc.t = "invalid" THEN Raised("JSONDecodeError")
    ELSE IF f.doc.t \notin Sized THEN Raised("TypeError")
    ELSE LET tests == f.doc.items
             total == Len(tests)
         IN  IF \E i \in 1..total : ~HasGet(tests[i]) THEN Raised("AttributeError")
             ELSE Returned(<<Cardinality({i \in 1..total : Truthy(GetPasses(tests[i]))}), total>>)

\* except (json.JSONDecodeError, IOError): IOError is OSError, the base
\* class of FileNotFoundError and PermissionError
CaughtByCount == {"JSONDecodeError", "FileNotFoundError", "PermissionError"}

\* the try statement with its except clause
CountAfterTry(f) ==
    LET b == CountBody(f)
    IN  IF b.kind = "raise" /\ b.exc \in CaughtByCount THEN Returned(<<0, 0>>) ELSE b

---------------------------------------------------------------------------
(* print_session_header and print_progress_summary: what they print.  A    *)
(* line is the sequence of the pieces it is formatted from.                *)

Digits == <<"0", "1", "2", "3", "4", "5", "6", "7", "8", "9">>

RECURSIVE Decimal(_)
\* str(n) of a natural number, one digit per piece
Decimal(n) ==
    IF n < 10 THEN <<Digits[n + 1]>>
    ELSE Append(Decimal(n \div 10), Digits[(n % 10) + 1])

\* (passing / total) * 100 as the number of tenths that "{:.1f}" prints:
\* the nearest tenth, a tie going to the even one
PercentTenths(passing, total) ==
    LET q == (1000 * passing) \div total
        r == (1000 * passing) % total
    IN  IF 2 * r > total \/ (2 * r = total /\ q % 2 = 1) THEN q + 1 ELSE q

\* f"{percentage:.1f}"
OneDecimal(tenths) == Decimal(tenths \div 10) \o <<".">> \o <<Digits[(tenths % 10) + 1]>>

\* "=" * 70
Rule == [i \in 1..RuleWidth |-> "="]

EmptyLine == <<>>

\* the four print calls of print_session_header; "\n" starts a line
HeaderLines(session_num, is_initializer) ==
    LET session_type == IF is_initializer THEN "INITIALIZER" ELSE "CODING AGENT"
    IN  << EmptyLine, Rule,
           <<"  SESSION ">> \o Decimal(session_num) \o <<": ", session_type>>,
           Rule, EmptyLine >>

NotYetCreatedLine == <<"Progress: feature_list.json not yet created">>

ProgressLine(passing, total) ==
    <<"Progress: ">> \o Decimal(passing) \o <<"/">> \o Decimal(total)
        \o <<" tests passing (">> \o OneDecimal(PercentTenths(passing, total)) \o <<"%)">>

StatusLine(status) == <<"Regression Status: ", status>>

\* SummaryLines testing passing > 0 for total > 0
SummaryLinesPassingTest(passing, total, status) ==
    << EmptyLine,
       IF passing > 0 THEN ProgressLine(passing, total) ELSE NotYetCreatedLine,
       StatusLine(status) >>

\* the if/else of print_progress_summary and its last print
SummaryLines(passing, total, status) ==
    << EmptyLine,
       IF total > 0 THEN ProgressLine(passing, total) ELSE NotYetCreatedLine,
       StatusLine(status) >>

---------------------------------------------------------------------------
(* The state machine.                                                      *)

NoCall ==
    [op |-> "none", kind |-> "none", status |-> "", pair |-> <<0, 0>>, exc |-> "none",
     seen |-> Absent, stage |-> "none", disturbed |-> FALSE]

NoCounts == <<0, 0>>

Init ==
    /\ summary = Absent
    /\ features = Absent
    /\ op = "none"
    /\ pc = "idle"
    /\ counts = NoCounts
    /\ regression_status = ""
    /\ stdout = <<>>
    /\ pathlib_raises \in BOOLEAN
    /\ disturbed = FALSE
    /\ last = NoCall

FileKinds == {"absent", "inaccessible", "unreadable", "undecodable", "text"}

\* the states in which a file cannot be read
Broken == {Inaccessible, Unreadable, Undecodable}
\* those of a file in a directory the process may search
BrokenFile == {Unreadable, Undecodable}

TypeOK ==
    /\ summary.kind \in FileKinds
    /\ features.kind \in FileKinds
    /\ op \in {"none", "get_regression_status", "count_passing_tests", "print_progress_summary"}
    /\ pc \in {"idle", "grs_exists", "grs_read", "cpt_exists", "cpt_read", "pps_print"}
    /\ (op = "none") = (pc = "idle")
    /\ disturbed \in BOOLEAN

(* The external writers, acting at any moment.  The regression runner     *)
(* removes summary.txt, creates or truncates it, appends a fragment of F   *)
(* to it (up to n fragments), or leaves it in a state of B, which cannot   *)
(* be read.                                                                *)
WriteSummary(F, n, B) ==
    /\ \/ summary # Absent /\ summary' = Absent
       \/ summary # TextFile(<<>>) /\ summary' = TextFile(<<>>)
       \/ /\ summary.kind = "text"
          /\ Len(summary.chunks) < n
          /\ \E f \in F : summary' = TextFile(Append(summary.chunks, f))
       \/ \E s \in B : s # summary /\ summary' = s
    /\ disturbed' = (disturbed \/ op = "get_regression_status")
    /\ UNCHANGED <<features, op, pc, counts, regression_status, stdout, pathlib_raises, last>>

(* The agent removes feature_list.json, writes an empty array, adds an     *)
(* entry of E to the array (up to n entries), writes something that is not *)
(* an array, or leaves it in a state of B, which cannot be read.           *)
WriteFeatures(E, n, B) ==
    /\ \/ features # Absent /\ features' = Absent
       \/ features # JsonFile(Doc("array", <<>>)) /\ features' = JsonFile(Doc("array", <<>>))
       \/ /\ features.kind = "text"
          /\ features.doc.t = "array"
          /\ Len(features.doc.items) < n
          /\ \E e \in E : features' = JsonFile(Doc("array", Append(features.doc.items, e)))
       \/ \E d \in NonArrayDocs : JsonFile(d) # features /\ features' = JsonFile(d)
       \/ \E s \in B : s # features /\ features' = s
    /\ disturbed' = (disturbed \/ op = "count_passing_tests")
    /\ UNCHANGED <<summary, op, pc, counts, regression_status, stdout, pathlib_raises, last>>

(* The driver calls a function of the module.                              *)
Call(name, first) ==
    /\ pc = "idle"
    /\ op' = name
    /\ pc' = first
    /\ disturbed' = FALSE
    /\ last' = NoCall
    /\ stdout' = <<>>
    /\ UNCHANGED <<summary, features, counts, regression_status, pathlib_raises>>

CallGetRegressionStatus == Call("get_regression_status", "grs_exists")
CallCountPassingTests == Call("count_passing_tests", "cpt_exists")

CallPrintProgressSummary == Call("print_progress_summary", "cpt_exists")

\* the call of op ends with outcome r, having last looked at file f
Complete(r, f, stage) ==
    /\ op' = "none"
    /\ pc' = "idle"
    /\ counts' = NoCounts
    /\ regression_status' = ""
    /\ disturbed' = FALSE
    /\ last' = [op |-> op, kind |-> r.kind, status |-> r.status, pair |-> r.pair,
                exc |-> r.exc, seen |-> f, stage |-> stage, disturbed |-> disturbed]

\* get_regression_status ends with outcome r: at the driver, or at line 80
\* of print_progress_summary, which an exception leaves at once
EndStatus(r, stage) ==
    IF op = "get_regression_status" \/ r.kind = "raise"
    THEN Complete(r, summary, stage) /\ UNCHANGED stdout
    ELSE /\ regression_status' = r.status
         /\ pc' = "pps_print"
         /\ UNCHANGED <<op, counts, stdout, disturbed, last>>

\* line 25, and line 37 when the file does not exist
GrsExists ==
    /\ pc = "grs_exists"
    /\ IF ExistsRaises(summary)
       THEN EndStatus(Raised("PermissionError"), "check")
       ELSE IF Exists(summary)
       THEN /\ pc' = "grs_read"
            /\ UNCHANGED <<op, counts, regression_status, stdout, disturbed, last>>
       ELSE EndStatus(ReturnedStatus(NotYetRun), "check")
    /\ UNCHANGED <<summary, features, pathlib_raises>>

\* GrsRead reading feature_list.json for summary.txt
GrsReadWrongFile ==
    /\ pc = "grs_read"
    /\ EndStatus(StatusAfterTry(features), "read")
    /\ UNCHANGED <<summary, features, pathlib_raises>>

\* lines 26-35
GrsRead ==
    /\ pc = "grs_read"
    /\ EndStatus(StatusAfterTry(summary), "read")
    /\ UNCHANGED <<summary, features, pathlib_raises>>

\* count_passing_tests ends with outcome r: at the driver, or at line 79 of
\* print_progress_summary, which an exception leaves at once
EndCount(r, stage) ==
    IF op = "count_passing_tests" \/ r.kind = "raise"
    THEN Complete(r, features, stage) /\ UNCHANGED stdout
    ELSE /\ counts' = r.pair
         /\ pc' = "grs_exists"
         /\ UNCHANGED <<op, regression_status, stdout, disturbed, last>>

\* lines 52-53
CptExists ==
    /\ pc = "cpt_exists"
    /\ IF ExistsRaises(features)
       THEN EndCount(Raised("PermissionError"), "check")
       ELSE IF ~Exists(features)
       THEN EndCount(Returned(<<0, 0>>), "check")
       ELSE /\ pc' = "cpt_read"
            /\ UNCHANGED <<op, counts, regression_status, stdout, disturbed, last>>
    /\ UNCHANGED <<summary, features, pathlib_raises>>

\* CptRead opening the file with mode "w": the file is truncated, and
\* reading the handle raises an OSError
CptReadOpenForWriting ==
    /\ pc = "cpt_read"
    /\ EndCount(Returned(<<0, 0>>), "read")
    /\ features' = JsonFile(Doc("invalid", <<>>))
    /\ UNCHANGED <<summary, pathlib_raises>>

\* lines 55-64
CptRead ==
    /\ pc = "cpt_read"
    /\ EndCount(CountAfterTry(features), "read")
    /\ UNCHANGED <<summary, features, pathlib_raises>>

\* lines 82-88
PpsPrint ==
    /\ pc = "pps_print"
    /\ stdout' = SummaryLines(counts[1], counts[2], regression_status)
    /\ Complete([ReturnedStatus(regression_status) EXCEPT !.pair = counts], Absent, "none")
    /\ UNCHANGED <<summary, features, pathlib_raises>>

\* lines 67-74
PrintSessionHeader ==
    /\ pc = "idle"
    /\ \E session_num \in 1..MaxSession, is_initializer \in BOOLEAN :
           /\ stdout' = HeaderLines(session_num, is_initializer)
           /\ last' = [NoCall EXCEPT !.op = "print_session_header", !.kind = "return",
                                     !.pair = <<session_num, IF is_initializer THEN 1 ELSE 0>>]
    /\ UNCHANGED <<summary, features, op, pc, counts, regression_status, pathlib_raises,
                   disturbed>>

\* the steps of get_regression_status, called by the driver or nested
StatusSteps == CallGetRegressionStatus \/ GrsExists \/ GrsRead
\* the steps of count_passing_tests
CountSteps == CallCountPassingTests \/ CptExists \/ CptRead
\* the steps of the module
ModuleSteps ==
    StatusSteps \/ CountSteps \/ CallPrintProgressSummary \/ PpsPrint \/ PrintSessionHeader

(* The whole module, both files changing under it.                         *)
Next ==
    \/ WriteSummary(FragmentsAll, MaxChunksAll, Broken)
    \/ WriteFeatures(EntriesAll, MaxEntriesAll, Broken)
    \/ CallGetRegressionStatus
    \/ GrsExists
    \/ GrsRead
    \/ CallCountPassingTests
    \/ CptExists
    \/ CptRead
    \/ CallPrintProgressSummary
    \/ PpsPrint
    \/ PrintSessionHeader

Spec == Init /\ [][Next]_vars

(* get_regression_status alone, over every summary text of the bound.      *)
NextStatus ==
    \/ WriteSummary(Fragments, MaxChunks, Broken)
    \/ CallGetRegressionStatus
    \/ GrsExists
    \/ GrsRead

SpecStatus == Init /\ [][NextStatus]_vars

(* count_passing_tests alone, over every feature list of the bound, in a   *)
(* project directory the process may search.                               *)
NextCount ==
    \/ WriteFeatures(Entries, MaxEntries, BrokenFile)
    \/ CallCountPassingTests
    \/ CptExists
    \/ CptRead

SpecCount == Init /\ [][NextCount]_vars

(* print_progress_summary alone, over longer feature lists, both files in  *)
(* directories the process may search.                                     *)
NextSummary ==
    \/ WriteSummary(FragmentsSummary, MaxChunksSummary, BrokenFile)
    \/ WriteFeatures(EntriesSummary, MaxEntriesSummary, BrokenFile)
    \/ CallPrintProgressSummary
    \/ CptExists
    \/ CptRead
    \/ GrsExists
    \/ GrsRead
    \/ PpsPrint

SpecSummary == Init /\ [][NextSummary]_vars

---------------------------------------------------------------------------
(* What the claims speak of, stated without the operators above.           *)

Queries == {"get_regression_status", "count_passing_tests"}
Statuses == {Passing, Failed, CompletedWithIssues, ReadError, NotYetRun}

\* the outcome of the latest completed call
Outcome == [kind |-> last.kind, status |-> last.status, pair |-> last.pair, exc |-> last.exc]

\* the text the latest call read
SeenText == Flatten(last.seen.chunks)

\* word occurs in text, letter for letter
Occurs(word, text) ==
    \E i \in 0..(Len(text) - Len(word)) : \A k \in 1..Len(word) : text[i + k] = word[k]

\* "failed" occurs in text in some letter casing
FailedCasings == <<{"f", "F"}, {"a", "A"}, {"i", "I"}, {"l", "L"}, {"e", "E"}, {"d", "D"}>>
MentionsFailed(text) ==
    \E i \in 0..(Len(text) - Len(FailedCasings)) :
        \A k \in 1..Len(FailedCasings) : text[i + k] \in FailedCasings[k]

\* the latest call was get_regression_status and it read text from summary.txt
ReadSummaryText ==
    /\ last.op = "get_regression_status"
    /\ last.stage = "read"
    /\ last.seen.kind = "text"

\* the status of a summary.txt with this text
StatusOfText(text) ==
    IF Occurs(SuccessPhrase, text) THEN Passing
    ELSE IF MentionsFailed(text) THEN Failed
    ELSE CompletedWithIssues

\* how get_regression_status ends on a summary.txt that stays in state f
\* during the call
ExpectedStatus(f) ==
    IF f.kind = "absent" THEN ReturnedStatus(NotYetRun)
    ELSE IF f.kind = "inaccessible"
         THEN IF pathlib_raises THEN Raised("PermissionError") ELSE ReturnedStatus(NotYetRun)
    ELSE IF f.kind # "text" THEN ReturnedStatus(ReadError)
    ELSE ReturnedStatus(StatusOfText(Flatten(f.chunks)))

\* f holds a JSON array whose entries are all mappings
IsSequenceOfMappings(f) ==
    /\ f.kind = "text"
    /\ f.doc.t = "array"
    /\ \A i \in 1..Len(f.doc.items) : f.doc.items[i].t = "object"

\* a valid feature list: an array of mappings whose "passes", when
\* present, is a boolean or a falsy value
IsValidFeatureList(f) ==
    /\ IsSequenceOfMappings(f)
    /\ \A i \in 1..Len(f.doc.items) :
           f.doc.items[i].passes \in {"absent", "true", "false", "null", "0", "\"\""}

RECURSIVE NumWith(_, _)
\* the number of entries whose "passes" token is in the set tokens
NumWith(tokens, items) ==
    IF items = <<>> THEN 0
    ELSE (IF Head(items).passes \in tokens THEN 1 ELSE 0) + NumWith(tokens, Tail(items))

TruthyTokens == {"true", "1", "\"yes\""}

\* how count_passing_tests ends on a feature_list.json that stays in state
\* f during the call
ExpectedCount(f) ==
    IF f.kind \in {"absent", "unreadable"} THEN Returned(<<0, 0>>)
    ELSE IF f.kind = "inaccessible"
         THEN IF pathlib_raises THEN Raised("PermissionError") ELSE Returned(<<0, 0>>)
    ELSE IF f.kind = "undecodable" THEN Raised("UnicodeDecodeError")
    ELSE IF f.doc.t = "invalid" THEN Returned(<<0, 0>>)
    ELSE IF f.doc.t \in {"number", "null", "bool"} THEN Raised("TypeError")
    ELSE IF \E i \in 1..Len(f.doc.items) : f.doc.items[i].t # "object"
         THEN Raised("AttributeError")
    ELSE Returned(<<NumWith(TruthyTokens, f.doc.items), Len(f.doc.items)>>)

---------------------------------------------------------------------------
(* The claims.                                                             *)

\* C1: count_passing_tests never raises: whatever the state of
\* feature_list.json it returns a pair, and the pair is (0, 0) when the file
\* is missing, unreadable or does not parse as a sequence of mappings.
\* (SpecCount)
C1_CountNeverRaises ==
    last.op = "count_passing_tests" =>
        /\ last.kind = "return"
        /\ (~IsSequenceOfMappings(last.seen) => last.pair = <<0, 0>>)

\* C2: print_progress_summary always completes normally, and the last line
\* it prints is the regression status line with the value that
\* get_regression_status returned.  (SpecSummary)
C2_SummaryAlwaysSucceeds ==
    last.op = "print_progress_summary" =>
        /\ last.kind = "return"
        /\ Len(stdout) > 0
        /\ stdout[Len(stdout)] = <<"Regression Status: ", last.status>>

\* C3: when the text read from summary.txt contains the exact phrase "All
\* tests completed successfully", get_regression_status returns Passing,
\* whatever else the text contains, "failed" in any casing included.
\* (SpecStatus)
C3_SuccessPhraseWins ==
    (ReadSummaryText /\ Occurs(SuccessPhrase, SeenText)) =>
        (last.kind = "return" /\ last.status = Passing)

\* a summary with the success phrase and "failed" was reported as passing
C3_Witness ==
    /\ ReadSummaryText
    /\ Occurs(SuccessPhrase, SeenText)
    /\ MentionsFailed(SeenText)
    /\ last.status = Passing

\* C4: when the text read from summary.txt does not contain the exact
\* success phrase, get_regression_status returns Failed exactly when the
\* text contains "failed" in some letter casing, and CompletedWithIssues
\* otherwise.  (SpecStatus)
C4_FailedAnyCasing ==
    (ReadSummaryText /\ ~Occurs(SuccessPhrase, SeenText)) =>
        /\ last.kind = "return"
        /\ (last.status = Failed) = MentionsFailed(SeenText)
        /\ (~MentionsFailed(SeenText) => last.status = CompletedWithIssues)

\* a summary with the success phrase in another casing and "failed" not in
\* lower case was reported as failed
C4_Witness ==
    /\ ReadSummaryText
    /\ Occurs(LowerPhrase, SeenText)
    /\ ~Occurs(FailedWord, SeenText)
    /\ last.status = Failed

\* C5: get_regression_status never raises and returns one of its five
\* status strings: NotYetRun when summary.txt does not exist, ReadError
\* when it exists and reading it fails, for whatever reason.  (SpecStatus)
C5_StatusNeverRaises ==
    last.op = "get_regression_status" =>
        /\ last.kind = "return"
        /\ last.status \in Statuses
        /\ (last.stage = "check" => last.status = NotYetRun)
        /\ ((last.stage = "read" /\ last.seen.kind # "text") => last.status = ReadError)

\* C6: for a valid feature list of N mappings of which K have passes: true,
\* count_passing_tests returns (K, N); the entries without "passes" or with
\* a falsy "passes" count in N and not in K.  (SpecCount)
C6_CountsPassing ==
    (last.op = "count_passing_tests" /\ last.stage = "read" /\ IsValidFeatureList(last.seen)) =>
        /\ last.kind = "return"
        /\ last.pair = <<NumWith({"true"}, last.seen.doc.items), Len(last.seen.doc.items)>>

\* a list of two entries, one passing, one without "passes" or with a
\* falsy one, was counted as (1, 2)
C6_Witness ==
    /\ last.op = "count_passing_tests"
    /\ last.stage = "read"
    /\ IsValidFeatureList(last.seen)
    /\ last.pair = <<1, 2>>
    /\ \E i \in 1..Len(last.seen.doc.items) :
           last.seen.doc.items[i].passes \in {"absent", "null", "0"}

\* C7, as claimed, for get_regression_status: when an external writer
\* changes summary.txt during the call, the call does not raise, and it
\* returns the status of the file state present at its read or, if the
\* read fails, NotYetRun.  (Spec)
C7_RaceAsNotYetRun ==
    (last.op = "get_regression_status" /\ last.disturbed) =>
        /\ last.kind = "return"
        /\ \/ Outcome = ExpectedStatus(last.seen)
           \/ (last.stage = "read" /\ last.seen.kind # "text" /\ last.status = NotYetRun)

\* C7, amended: when an external writer changes the file during the call,
\* a call that reads the file ends as the function ends on the content
\* present at the read, and when that read fails because the file is gone
\* or cannot be opened, get_regression_status returns ReadError and
\* count_passing_tests (0, 0); a call that ends at its existence check ends
\* as the function ends on the file state at that check.  (Spec)
C7_RaceOutcome ==
    (last.op \in Queries /\ last.disturbed) =>
        /\ last.op = "get_regression_status" =>
               Outcome = IF last.stage = "read" /\ last.seen.kind \in {"absent", "inaccessible"}
                         THEN ReturnedStatus(ReadError)
                         ELSE ExpectedStatus(last.seen)
        /\ last.op = "count_passing_tests" =>
               Outcome = IF last.stage = "read" /\ last.seen.kind \in {"absent", "inaccessible"}
                         THEN Returned(<<0, 0>>)
                         ELSE ExpectedCount(last.seen)

\* summary.txt was removed between the existence check and the read
C7_Witness ==
    /\ last.op = "get_regression_status"
    /\ last.disturbed
    /\ last.stage = "read"
    /\ last.seen.kind = "absent"
    /\ last.status = ReadError

\* C8: print_progress_summary prints the "not yet created" line, without a
\* percentage, exactly when count_passing_tests gave total = 0, and
\* otherwise "passing/total tests passing" with the pair it gave and the
\* percentage 100 * passing / total to one decimal; a list with entries and
\* none passing is printed as 0/total.  (SpecSummary)
C8_ProgressLine ==
    (last.op = "print_progress_summary" /\ last.kind = "return") =>
        LET passing == last.pair[1]
            total == last.pair[2]
        IN  /\ Len(stdout) = 3
            /\ (stdout[2] = <<"Progress: feature_list.json not yet created">>) = (total = 0)
            /\ total # 0 =>
                   \E tenths \in 0..1000 :
                       /\ 2 * (tenths * total - 1000 * passing) <= total
                       /\ 2 * (1000 * passing - tenths * total) <= total
                       /\ stdout[2] = <<"Progress: ">> \o Decimal(passing) \o <<"/">>
                                          \o Decimal(total) \o <<" tests passing (">>
                                          \o Decimal(tenths \div 10) \o <<".">>
                                          \o Decimal(tenths % 10) \o <<"%)">>

\* one entry of three passes: "Progress: 1/3 tests passing (33.3%)"
C8_Witness ==
    /\ last.op = "print_progress_summary"
    /\ last.pair = <<1, 3>>
    /\ stdout[2] = <<"Progress: ", "1", "/", "3", " tests passing (", "3", "3", ".", "3", "%)">>

\* C9: nothing is cached: a call of get_regression_status or
\* count_passing_tests during which the file does not change ends as the
\* state of the file at that call alone determines, whatever was called or
\* written before.  (Spec)
C9_FreshEveryCall ==
    (last.op \in Queries /\ ~last.disturbed) =>
        /\ last.op = "get_regression_status" => Outcome = ExpectedStatus(last.seen)
        /\ last.op = "count_passing_tests" => Outcome = ExpectedCount(last.seen)

\* a call counted the one passing entry of a feature list that was written,
\* and left alone during the call, and that has been removed since
C9_Witness ==
    /\ last.op = "count_passing_tests"
    /\ ~last.disturbed
    /\ last.stage = "read"
    /\ last.pair = <<1, 1>>
    /\ features = Absent

\* C10: no step of the module changes summary.txt or feature_list.json,
\* on any exit path, and the two query functions print nothing.  (Spec)
C10_FilesUntouched ==
    [][ModuleSteps =>
           /\ summary' = summary
           /\ features' = features
           /\ (op \in Queries => stdout' = stdout)]_vars

\* print_progress_summary has run with both files present
C10_Witness ==
    /\ last.op = "print_progress_summary"
    /\ last.kind = "return"
    /\ summary.kind = "text"
    /\ features.kind = "text"
    /\ Len(stdout) = 3

====
